---- MODULE Spec2Model ----
(***************************************************************************)
(* A model of factiva_to_df (src/factiva_parse.ipynb): the loader that     *)
(* reads every .txt file of a folder in sorted order, drops the trailing   *)
(* "Search Summary", splits the text into articles on the page break, and  *)
(* the segment walk that turns one article into a dictionary of field      *)
(* codes and values, appended as one row of the dataframe.                 *)
(*                                                                         *)
(* A Python str is a sequence of one-character strings; the regular        *)
(* expressions and str methods the function uses are operators on such     *)
(* sequences, computed the way re and str compute them.                    *)
(***************************************************************************)
EXTENDS Naturals, Sequences, FiniteSets

\* ------------------------------------------------------------------ text

\* The characters \s matches and str.strip() removes.
Whitespace == {" ", "\t", "\n", "\r", "\f"}

\* The characters [A-Z] matches.
Upper == {"A", "B", "C", "D", "E", "F", "G", "H", "I", "J", "K", "L", "M",
          "N", "O", "P", "Q", "R", "S", "T", "U", "V", "W", "X", "Y", "Z"}

\* sep = '\f', the page break between two articles.
sep == <<"\f">>

\* search_sum = '\nSearch Summary\n'
search_sum == <<"\n", "S", "e", "a", "r", "c", "h", " ",
                "S", "u", "m", "m", "a", "r", "y", "\n">>

\* The field codes of the configured list, as texts.
cSE == <<"S", "E">>
cHD == <<"H", "D">>
cWC == <<"W", "C">>
cPD == <<"P", "D">>
cSN == <<"S", "N">>
cSC == <<"S", "C">>
cLA == <<"L", "A">>
cCY == <<"C", "Y">>
cNS == <<"N", "S">>
cCO == <<"C", "O">>
cRE == <<"R", "E">>
cPUB == <<"P", "U", "B">>
cAN == <<"A", "N">>
cLP == <<"L", "P">>
cTD == <<"T", "D">>
\* A field code of the Factiva list that fieldnames leaves out (BY = Author).
cBY == <<"B", "Y">>

\* fieldnames = ['SE', 'HD', 'WC', ..., 'LP', 'TD'], as the notebook sets it.
DefaultFieldnames == <<cSE, cHD, cWC, cPD, cSN, cSC, cLA, cCY, cNS, cCO, cRE,
                       cPUB, cAN, cLP, cTD>>

\* `key in names` for a list of names.
InList(k, names) == \E i \in 1..Len(names) : names[i] = k

\* s[i:] for a 0-based i, as a 1-based suffix.
Drop(s, n) == SubSeq(s, n + 1, Len(s))

\* str.strip(): s without its leading and trailing whitespace.
Strip(s) ==
    LET keep == {i \in 1..Len(s) : s[i] \notin Whitespace}
    IN  IF keep = {} THEN << >>
        ELSE LET lo == CHOOSE i \in keep : \A j \in keep : i <= j
                 hi == CHOOSE i \in keep : \A j \in keep : j <= i
             IN  SubSeq(s, lo, hi)

\* Whether the literal lit occurs in s at position i.
LitAt(s, lit, i) ==
    /\ i >= 1
    /\ i + Len(lit) - 1 <= Len(s)
    /\ \A j \in 1..Len(lit) : s[i + j - 1] = lit[j]

\* re.split(lit, s) for a literal, non-empty pattern without a group: the texts
\* between the successive leftmost matches, scanning from position i with the
\* running text starting at from.
RECURSIVE SplitLitFrom(_, _, _, _)
SplitLitFrom(s, lit, from, i) ==
    IF i > Len(s) THEN << SubSeq(s, from, Len(s)) >>
    ELSE IF LitAt(s, lit, i)
         THEN << SubSeq(s, from, i - 1) >>
              \o SplitLitFrom(s, lit, i + Len(lit), i + Len(lit))
         ELSE SplitLitFrom(s, lit, from, i + 1)

ReSplitLit(lit, s) == SplitLitFrom(s, lit, 1, 1)

\* The length of the match of regex = '(\s[A-Z]{2,3}\n)' in s at position i, 0
\* when there is none: a whitespace character, three capitals if a line break
\* follows them (the greedy choice), else two capitals and a line break.
TagLenAt(s, i) ==
    IF /\ i >= 1
       /\ i + 4 <= Len(s)
       /\ s[i] \in Whitespace
       /\ s[i + 1] \in Upper /\ s[i + 2] \in Upper /\ s[i + 3] \in Upper
       /\ s[i + 4] = "\n"
    THEN 5
    ELSE IF /\ i >= 1
            /\ i + 3 <= Len(s)
            /\ s[i] \in Whitespace
            /\ s[i + 1] \in Upper /\ s[i + 2] \in Upper
            /\ s[i + 3] = "\n"
         THEN 4
         ELSE 0

\* re.split(regex, s): as the pattern has a group, the matched tag lines are
\* kept, interleaved with the texts between them.
RECURSIVE SplitTagFrom(_, _, _)
SplitTagFrom(s, from, i) ==
    IF i > Len(s) THEN << SubSeq(s, from, Len(s)) >>
    ELSE IF TagLenAt(s, i) > 0
         THEN << SubSeq(s, from, i - 1), SubSeq(s, i, i + TagLenAt(s, i) - 1) >>
              \o SplitTagFrom(s, i + TagLenAt(s, i), i + TagLenAt(s, i))
         ELSE SplitTagFrom(s, from, i + 1)

ReSplitTag(s) == SplitTagFrom(s, 1, 1)

\* re.match('^HD\s', split), re.match('^SE\s', split): the code at the start of
\* the segment, followed by a whitespace character.
MatchInline(code, split) ==
    /\ Len(split) >= 3
    /\ split[1] = code[1]
    /\ split[2] = code[2]
    /\ split[3] \in Whitespace

\* re.match(regex, split): the tag-line pattern at the start of the segment.
MatchTag(split) == TagLenAt(split, 1) > 0

\* ------------------------------------------------------------- the folder

\* The names of the folder's entries: two text files and the .rtf the first
\* was converted from.
nA == <<"a", ".", "t", "x", "t">>
nB == <<"b", ".", "t", "x", "t">>
nR == <<"a", ".", "r", "t", "f">>

\* The code points of the characters of the names, by which Python orders str.
CodePoint == [c \in {".", "a", "b", "f", "r", "t", "x"} |->
                CASE c = "." -> 46
                  [] c = "a" -> 97
                  [] c = "b" -> 98
                  [] c = "f" -> 102
                  [] c = "r" -> 114
                  [] c = "t" -> 116
                  [] c = "x" -> 120]

\* a < b for two str: at the first position where they differ the code point
\* of a is the smaller, or a is a proper prefix of b.
StrLess(a, b) ==
    \/ /\ Len(a) < Len(b)
       /\ \A i \in 1..Len(a) : a[i] = b[i]
    \/ \E i \in 1..Len(a) :
          /\ i <= Len(b)
          /\ \A j \in 1..(i - 1) : a[j] = b[j]
          /\ CodePoint[a[i]] < CodePoint[b[i]]

\* The pattern "*.txt" of glob.iglob(path + "*.txt").
IsTxt(name) ==
    /\ Len(name) >= 4
    /\ SubSeq(name, Len(name) - 3, Len(name)) = <<".", "t", "x", "t">>

\* One insertion of sorted(): name put before the first element it is less than.
RECURSIVE Insert(_, _)
Insert(name, sorted) ==
    IF sorted = << >> THEN << name >>
    ELSE IF StrLess(name, Head(sorted)) THEN << name >> \o sorted
         ELSE << Head(sorted) >> \o Insert(name, Tail(sorted))

\* sorted() left out: the files in the order the folder yields them.
SortNamesNone(names) == names

\* sorted(names): the names in ascending order.
RECURSIVE SortNames(_)
SortNames(names) ==
    IF names = << >> THEN << >>
    ELSE Insert(names[Len(names)], SortNames(SubSeq(names, 1, Len(names) - 1)))

\* glob.iglob(path + "*.txt") on a listing of the folder: the entries the
\* pattern matches, in the order the folder yields them.
Glob(entries) == SelectSeq(entries, IsTxt)

\* The search summary kept: the whole text of the file.
KeepSearchSum(t) == t

\* drop_search_sum = re.split(search_sum, text); text = drop_search_sum[0]
DropSearchSum(t) == ReSplitLit(search_sum, t)[1]

\* docs = re.split(sep, text)
SplitDocs(t) == ReSplitLit(sep, t)

\* The article as it is, not stripped.
StripDocNone(d) == d

\* doc = doc.strip()
StripDoc(d) == Strip(d)

\* ------------------------------------------------------------- the state

VARIABLES
    fieldnames,     \* the configured list of field codes
    folder,         \* the folder: entry name -> the text of the file
    listing,        \* the order in which the folder yields its entries
    pc,             \* where factiva_to_df is
    files_all,      \* the sorted .txt files
    fi,             \* the position of the file loop in files_all
    docs,           \* the articles of the current file
    di,             \* the position of the article loop in docs
    doc,            \* the current article, stripped
    splits,         \* its segments
    si,             \* the position of the segment loop in splits
    key,            \* the current key
    value,          \* the current value
    metadata_dict,  \* the record being built
    df,             \* the rows of the dataframe
    value_seg,      \* history: the segment the current value was taken from
    dict_seg,       \* history: for each key of the record, that segment
    row_from        \* history: for each row, its file and article position

vars == <<fieldnames, folder, listing, pc, files_all, fi, docs, di, doc,
          splits, si, key, value, metadata_dict, df, value_seg, dict_seg,
          row_from>>

\* Any key that is not empty taken for a configured one.
ConfiguredAny(k) == k # << >>

\* `key in fieldnames`
Configured(k) == InList(k, fieldnames)

\* metadata_dict[key] = value
DictSet(d, k, v) == [x \in DOMAIN d \cup {k} |-> IF x = k THEN v ELSE d[x]]

\* The write without the test of the key.
DictWriteAlways(d, k, v) == DictSet(d, k, v)

\* if key in fieldnames: metadata_dict[key] = value
DictWrite(d, k, v) == IF Configured(k) THEN DictSet(d, k, v) ELSE d

\* df.loc[len(df)] = metadata_dict: the row holds the dictionary's value in
\* each column the dictionary has a key for, and is null in the others.
RowOf(d) == [c \in {k \in DOMAIN d : Configured(k)} |-> d[c]]

\* -------------------------------------------------------------- the input

\* The pieces the texts of the model are put together from.
pTagLA == <<"\n", "L", "A", "\n">>
pTagBY == <<"\n", "B", "Y", "\n">>
pTagHD == <<"\n", "H", "D", "\n">>
pTagPUB == <<" ", "P", "U", "B", "\n">>
pInHD == <<"H", "D", " ">>
pInSE == <<"S", "E", "\n">>
pX == <<"x">>
pY == <<"y">>
pNL == <<"\n">>

Pieces == {pTagLA, pTagBY, pTagHD, pTagPUB, pInHD, pInSE, pX, pY, pNL, sep, search_sum}

\* The longest text of the parser's specification, in pieces.
MaxPieces == 4

RECURSIVE Concat(_)
Concat(ps) == IF ps = << >> THEN << >> ELSE Head(ps) \o Concat(Tail(ps))

TextsOf(pieces, n) ==
    {Concat(ps) : ps \in UNION {[1..k -> pieces] : k \in 0..n}}

\* The state before factiva_to_df runs.
Begin ==
    /\ pc = "glob"
    /\ files_all = << >>
    /\ fi = 0
    /\ docs = << >>
    /\ di = 0
    /\ doc = << >>
    /\ splits = << >>
    /\ si = 0
    /\ key = << >>
    /\ value = << >>
    /\ metadata_dict = << >>
    /\ df = << >>
    /\ value_seg = 0
    /\ dict_seg = << >>
    /\ row_from = << >>

\* One text file, of any text of at most MaxPieces pieces.
Init ==
    /\ fieldnames = DefaultFieldnames
    /\ \E t \in TextsOf(Pieces, MaxPieces) : folder = [n \in {nA} |-> t]
    /\ listing = << nA >>
    /\ Begin

\* The list edited to leave the headline and the section out ("choose which
\* fields you would like to work with").
NoHeadFieldnames == <<cWC, cPD, cSN, cSC, cLA, cCY, cNS, cCO, cRE, cPUB, cAN,
                      cLP, cTD>>

\* As Init, with either list of fields.
InitCfg ==
    /\ fieldnames \in {DefaultFieldnames, NoHeadFieldnames}
    /\ \E t \in TextsOf(Pieces, MaxPieces) : folder = [n \in {nA} |-> t]
    /\ listing = << nA >>
    /\ Begin

\* The pieces of the loader's texts: an article with a headline and a
\* language, an article with a section, a blank line, the page break and the
\* header of the search summary.
pArtHD == <<"H", "D", " ", "x", "\n", "L", "A", "\n", "y">>
pArtSE == <<"S", "E", " ", "z">>

LoadPieces == {pArtHD, pArtSE, pNL, sep, search_sum}

\* The most pieces the two text files of the loader's specification hold
\* together.
MaxFilePieces == 4

\* The orders in which a folder can yield the entries of a set.
Orders(S) ==
    {o \in [1..Cardinality(S) -> S] : \A e \in S : \E i \in DOMAIN o : o[i] = e}

\* Two text files and an .rtf, yielded by the folder in any order.
InitLoad ==
    /\ fieldnames = DefaultFieldnames
    /\ \E ps \in UNION {[1..k -> LoadPieces] : k \in 0..MaxFilePieces} :
         \E cut \in 0..Len(ps) :
            folder = [n \in {nA, nB, nR} |->
                        IF n = nA THEN Concat(SubSeq(ps, 1, cut))
                        ELSE IF n = nB THEN Concat(SubSeq(ps, cut + 1, Len(ps)))
                        ELSE <<"{">>]
    /\ listing \in Orders({nA, nB, nR})
    /\ Begin

\* ------------------------------------------------------------ the actions

\* files_all = sorted(glob.iglob(path + "*.txt")); df starts empty.
GlobFiles ==
    /\ pc = "glob"
    /\ files_all' = SortNames(Glob(listing))
    /\ fi' = 1
    /\ df' = << >>
    /\ row_from' = << >>
    /\ pc' = "file"
    /\ UNCHANGED <<fieldnames, folder, listing, docs, di, doc, splits, si, key,
                   value, metadata_dict, value_seg, dict_seg>>

\* for filename in files_all: read the file, drop the search summary, split
\* the rest into articles. (The "Loading" line it prints is no part of the
\* state.)
ReadFile ==
    /\ pc = "file"
    /\ fi <= Len(files_all)
    /\ docs' = SplitDocs(DropSearchSum(folder[files_all[fi]]))
    /\ di' = 1
    /\ pc' = "doc"
    /\ UNCHANGED <<fieldnames, folder, listing, files_all, fi, doc, splits, si,
                   key, value, metadata_dict, df, value_seg, dict_seg, row_from>>

\* The file loop is over: return(df).
Return ==
    /\ pc = "file"
    /\ fi > Len(files_all)
    /\ pc' = "done"
    /\ UNCHANGED <<fieldnames, folder, listing, files_all, fi, docs, di, doc,
                   splits, si, key, value, metadata_dict, df, value_seg,
                   dict_seg, row_from>>

\* for doc in docs: an article that is empty once stripped is skipped.
SkipDoc ==
    /\ pc = "doc"
    /\ di <= Len(docs)
    /\ StripDoc(docs[di]) = << >>
    /\ doc' = StripDoc(docs[di])
    /\ di' = di + 1
    /\ UNCHANGED <<fieldnames, folder, listing, pc, files_all, fi, docs, splits,
                   si, key, value, metadata_dict, df, value_seg, dict_seg,
                   row_from>>

\* for doc in docs: any other article is split into its segments, and the walk
\* starts with an empty dictionary, key and value.
BeginDoc ==
    /\ pc = "doc"
    /\ di <= Len(docs)
    /\ StripDoc(docs[di]) # << >>
    /\ doc' = StripDoc(docs[di])
    /\ splits' = ReSplitTag(StripDoc(docs[di]))
    /\ si' = 1
    /\ key' = << >>
    /\ value' = << >>
    /\ metadata_dict' = << >>
    /\ value_seg' = 0
    /\ dict_seg' = << >>
    /\ pc' = "split"
    /\ UNCHANGED <<fieldnames, folder, listing, files_all, fi, docs, di, df,
                   row_from>>

\* The article loop is over: the next file.
EndDocs ==
    /\ pc = "doc"
    /\ di > Len(docs)
    /\ fi' = fi + 1
    /\ pc' = "file"
    /\ UNCHANGED <<fieldnames, folder, listing, files_all, docs, di, doc, splits,
                   si, key, value, metadata_dict, df, value_seg, dict_seg,
                   row_from>>

\* The end of one pass of `for split in splits`: the write under the key, if
\* it is configured, and the step to the next segment.
Written(k, v, seg) ==
    /\ key' = k
    /\ value' = v
    /\ value_seg' = seg
    /\ metadata_dict' = DictWrite(metadata_dict, k, v)
    /\ dict_seg' = DictWrite(dict_seg, k, seg)
    /\ si' = si + 1
    /\ UNCHANGED <<fieldnames, folder, listing, pc, files_all, fi, docs, di,
                   doc, splits, df, row_from>>

\* if re.match('^HD\s', split): key = 'HD'; value = split[3:].strip()
SplitHD ==
    /\ pc = "split"
    /\ si <= Len(splits)
    /\ MatchInline(cHD, splits[si])
    /\ Written(cHD, Strip(Drop(splits[si], 3)), si)

\* elif re.match('^SE\s', split): key = 'SE'; value = split[3:].strip()
SplitSE ==
    /\ pc = "split"
    /\ si <= Len(splits)
    /\ ~MatchInline(cHD, splits[si])
    /\ MatchInline(cSE, splits[si])
    /\ Written(cSE, Strip(Drop(splits[si], 3)), si)

\* elif re.match(regex, split): key = split.strip()
SplitTag ==
    /\ pc = "split"
    /\ si <= Len(splits)
    /\ ~MatchInline(cHD, splits[si])
    /\ ~MatchInline(cSE, splits[si])
    /\ MatchTag(splits[si])
    /\ Written(Strip(splits[si]), value, value_seg)

\* else: value = split.strip()
SplitText ==
    /\ pc = "split"
    /\ si <= Len(splits)
    /\ ~MatchInline(cHD, splits[si])
    /\ ~MatchInline(cSE, splits[si])
    /\ ~MatchTag(splits[si])
    /\ Written(key, Strip(splits[si]), si)

\* The segment loop is over: df.loc[len(df)] = metadata_dict, and the next
\* article.
AppendRow ==
    /\ pc = "split"
    /\ si > Len(splits)
    /\ df' = Append(df, RowOf(metadata_dict))
    /\ row_from' = Append(row_from, [file |-> files_all[fi], pos |-> di])
    /\ di' = di + 1
    /\ pc' = "doc"
    /\ UNCHANGED <<fieldnames, folder, listing, files_all, fi, docs, doc, splits,
                   si, key, value, metadata_dict, value_seg, dict_seg>>

Next ==
    \/ GlobFiles
    \/ ReadFile
    \/ Return
    \/ SkipDoc
    \/ BeginDoc
    \/ EndDocs
    \/ SplitHD
    \/ SplitSE
    \/ SplitTag
    \/ SplitText
    \/ AppendRow

Spec == Init /\ [][Next]_vars

SpecCfg == InitCfg /\ [][Next]_vars

SpecLoad == InitLoad /\ [][Next]_vars

\* ------------------------------------------------------------- the claims

\* The walk of the current article is over and its record is complete: the
\* state in which the record is appended as a row.
WalkDone == pc = "split" /\ si > Len(splits)

\* The names of fieldnames, as a set.
FieldSet == {fieldnames[i] : i \in 1..Len(fieldnames)}

\* re.split with one group alternates text and tag line: the tag lines are
\* the segments at the even positions, and the code of one is the tag line
\* without its first and last character.
TagSegs == {i \in 1..Len(splits) : i % 2 = 0}

CodeOf(i) == SubSeq(splits[i], 2, Len(splits[i]) - 1)

\* Segment i is an occurrence of the code K: its tag line, or a segment that
\* starts with K and a whitespace character, for the two inline codes.
Occurs(K, i) ==
    \/ i \in TagSegs /\ CodeOf(i) = K
    \/ i \notin TagSegs /\ K \in {cHD, cSE} /\ MatchInline(K, splits[i])

Occurrences(K) == {i \in 1..Len(splits) : Occurs(K, i)}

Last(S) == CHOOSE i \in S : \A j \in S : j <= i

\* The text that belongs to an occurrence: what follows the tag line up to the
\* next one, or the rest of the segment behind the inline prefix.
TextOf(i) ==
    IF i \in TagSegs THEN Strip(splits[i + 1]) ELSE Strip(Drop(splits[i], 3))

\* The segment that text is taken from.
SegOf(i) == IF i \in TagSegs THEN i + 1 ELSE i

\* The codes a text of the model can hold.
Codes == {cHD, cSE, cLA, cBY, cPUB}

\* ---- C1

\* The longest list of (tag, value) pairs of the round trip.
MaxPairs == 2

PairLists ==
    UNION {[1..k -> [tag : {cLA, cHD, cBY}, val : {pX, pY}]] : k \in 0..MaxPairs}

\* The generic layout of a list of pairs: for each pair a line break, the
\* tag, a line break, the value.
RECURSIVE Layout(_)
Layout(ps) ==
    IF ps = << >> THEN << >>
    ELSE <<"\n">> \o Head(ps).tag \o <<"\n">> \o Head(ps).val \o Layout(Tail(ps))

\* The mapping a list of pairs stands for: each configured tag of the list
\* mapped to the value of its last pair.
MappingOf(ps) ==
    [t \in {ps[i].tag : i \in 1..Len(ps)} \cap FieldSet |->
        ps[Last({i \in 1..Len(ps) : ps[i].tag = t})].val]

\* C1: round trip. The block that lays a list of (tag, value) pairs out as
\* isolated tag lines is parsed into exactly the mapping of those pairs,
\* restricted to the configured fields, whatever the first tag of the list is.
C1_RoundTrip ==
    \A ps \in PairLists :
        (WalkDone /\ ps # << >> /\ docs[di] = Layout(ps))
            => metadata_dict = MappingOf(ps)

\* ---- C2

\* C2: HD and SE in both layouts. When the block starts with the code and a
\* whitespace character and the code does not occur again, and when the last
\* occurrence of the code is a tag line of its own, the record maps the code
\* to the trimmed text that follows the tag up to the next tag line.
C2_HeadlineAndSection ==
    WalkDone =>
        \A K \in {cHD, cSE} \cap FieldSet :
            /\ (MatchInline(K, splits[1]) /\ Occurrences(K) = {1})
                  => (K \in DOMAIN metadata_dict
                        /\ metadata_dict[K] = Strip(Drop(splits[1], 3)))
            /\ \A i \in TagSegs :
                  (CodeOf(i) = K /\ Last(Occurrences(K)) = i)
                      => (K \in DOMAIN metadata_dict
                            /\ metadata_dict[K] = Strip(splits[i + 1]))

\* ---- C3

\* The text holds no match of the tag-line pattern.
NoTagLine(t) == \A i \in 1..Len(t) : TagLenAt(t, i) = 0

\* The article holds no recognizable tag marker: no tag line, and neither
\* inline prefix at the start of the trimmed block the walk is given.
NoMarker == NoTagLine(doc) /\ ~MatchInline(cHD, doc) /\ ~MatchInline(cSE, doc)

\* C3: an article without any recognizable tag marker yields an empty record,
\* at every step of its walk.
C3_NoMarkerEmptyRecord ==
    (pc = "split" /\ NoMarker) => DOMAIN metadata_dict = {}

\* An article of capitals and text that holds no marker has been walked.
C3_Witness ==
    /\ WalkDone
    /\ NoMarker
    /\ Len(splits) = 1
    /\ \E i \in 1..Len(doc) : doc[i] \in Upper
    /\ \E i \in 1..Len(doc) : doc[i] = "\n"
    /\ value = doc
    /\ metadata_dict = << >>

\* ---- C4

\* C4: the keys of the record being built, at every step of the walk, and of
\* every row, are configured field names.
C4_KeysConfigured ==
    /\ DOMAIN metadata_dict \subseteq FieldSet
    /\ \A r \in 1..Len(df) : DOMAIN df[r] \subseteq FieldSet

\* The walk is over for an article that holds an unconfigured code and the
\* headline, with the headline left out of the list: neither is a key.
C4_Witness ==
    /\ WalkDone
    /\ cHD \notin FieldSet
    /\ Occurrences(cHD) # {}
    /\ Occurrences(cBY) # {}
    /\ Occurrences(cLA) # {}
    /\ DOMAIN metadata_dict = {cLA}

\* ---- C5

\* C5: last seen wins. A configured code that occurs more than once in the
\* block is mapped to the text of its last occurrence, taken from there and
\* from no earlier occurrence.
C5_LastSeenWins ==
    WalkDone =>
        \A K \in Codes \cap FieldSet :
            Cardinality(Occurrences(K)) >= 2
                => /\ K \in DOMAIN metadata_dict
                   /\ metadata_dict[K] = TextOf(Last(Occurrences(K)))
                   /\ dict_seg[K] = SegOf(Last(Occurrences(K)))

\* ---- C9

\* C9: orphan text is discarded. The text before the first tag of the block,
\* met while the key is still empty, is the value of no field of the record.
C9_OrphanDiscarded ==
    (WalkDone /\ ~MatchInline(cHD, splits[1]) /\ ~MatchInline(cSE, splits[1]))
        => \A K \in DOMAIN metadata_dict : dict_seg[K] # 1

\* ---- C10

\* C10: no stale value. A configured code whose last occurrence is a tag line
\* is mapped to the trimmed text of the segment that follows the tag line,
\* taken from that segment, whatever that segment starts with.
C10_NoStaleValue ==
    WalkDone =>
        \A i \in TagSegs :
            (CodeOf(i) \in FieldSet /\ Last(Occurrences(CodeOf(i))) = i)
                => /\ CodeOf(i) \in DOMAIN metadata_dict
                   /\ metadata_dict[CodeOf(i)] = Strip(splits[i + 1])
                   /\ dict_seg[CodeOf(i)] = i + 1

\* ---- C6

\* The rows a file has contributed so far.
RowsOf(f) == {r \in 1..Len(row_from) : row_from[r].file = f}

\* C6: file-then-position order. The files are taken in ascending order of
\* their names, and of two rows the earlier one comes from a file whose name
\* sorts earlier, or from an earlier article of the same file.
C6_FileThenPosition ==
    /\ Len(row_from) = Len(df)
    /\ \A i, j \in 1..Len(files_all) :
          i < j => StrLess(files_all[i], files_all[j])
    /\ pc # "glob" => \A n \in DOMAIN folder :
          IsTxt(n) <=> \E i \in 1..Len(files_all) : files_all[i] = n
    /\ \A i, j \in 1..Len(row_from) :
          i < j => \/ StrLess(row_from[i].file, row_from[j].file)
                   \/ /\ row_from[i].file = row_from[j].file
                      /\ row_from[i].pos < row_from[j].pos

\* The folder yielded b.txt before a.txt, and the function has returned two
\* rows of a.txt followed by a row of b.txt.
C6_Witness ==
    /\ pc = "done"
    /\ \E i, j \in 1..Len(listing) :
          i < j /\ listing[i] = nB /\ listing[j] = nA
    /\ Cardinality(RowsOf(nA)) >= 2
    /\ Cardinality(RowsOf(nB)) >= 1

\* ---- C7

\* The positions of the header of the search summary in a text.
SummaryAt(t) == {i \in 1..Len(t) : LitAt(t, search_sum, i)}

\* The text before the first header, the whole text when there is none.
BeforeSummary(t) ==
    IF SummaryAt(t) = {} THEN t
    ELSE SubSeq(t, 1, (CHOOSE i \in SummaryAt(t) : \A j \in SummaryAt(t) : i <= j) - 1)

\* The articles put together again, a page break between two of them.
RECURSIVE JoinDocs(_)
JoinDocs(ds) ==
    IF Len(ds) = 0 THEN << >>
    ELSE IF Len(ds) = 1 THEN ds[1]
         ELSE ds[1] \o sep \o JoinDocs(Tail(ds))

\* v occurs in t as a run of characters.
OccursIn(v, t) == \E i \in 1..(Len(t) + 1) : LitAt(t, v, i)

\* C7: the search summary is discarded. The articles of a file are the text
\* before the first header of the search summary (the whole text when there
\* is none), and every value of every row occurs in that text of its file.
C7_SummaryDiscarded ==
    /\ pc \in {"doc", "split"}
          => JoinDocs(docs) = BeforeSummary(folder[files_all[fi]])
    /\ \A f \in {row_from[r].file : r \in 1..Len(row_from)} :
          LET kept == BeforeSummary(folder[f])
          IN  \A r \in RowsOf(f) : \A K \in DOMAIN df[r] :
                 OccursIn(df[r][K], kept)

\* A file with an article, the header and an article behind the header has
\* been read to its end, and has one row.
C7_Witness ==
    /\ pc = "done"
    /\ SummaryAt(folder[nA]) # {}
    /\ OccursIn(pArtSE, folder[nA])
    /\ ~OccursIn(pArtSE, BeforeSummary(folder[nA]))
    /\ Cardinality(RowsOf(nA)) = 1

\* ---- C8

\* The text holds a character that is not whitespace.
NonBlank(t) == \E i \in 1..Len(t) : t[i] \notin Whitespace

\* The blocks of a file: the texts between the page breaks of the text before
\* the search summary.
BlocksOf(f) == ReSplitLit(sep, BeforeSummary(folder[f]))

\* C8: blank blocks are dropped. Every row comes from a block that is not
\* blank; while a file is read it has one row for each block met so far that
\* is not blank, and once it is read, one row for each such block it holds.
C8_BlankBlocksDropped ==
    /\ \A f \in {row_from[r].file : r \in 1..Len(row_from)} :
          LET blocks == BlocksOf(f)
          IN  \A r \in RowsOf(f) :
                 /\ row_from[r].pos \in 1..Len(blocks)
                 /\ NonBlank(blocks[row_from[r].pos])
    /\ pc = "doc" =>
          Cardinality(RowsOf(files_all[fi]))
              = Cardinality({i \in 1..(di - 1) : NonBlank(docs[i])})
    /\ pc \in {"file", "done"} =>
          \A j \in 1..Len(files_all) :
              j < fi =>
                 LET blocks == BlocksOf(files_all[j])
                 IN  Cardinality(RowsOf(files_all[j]))
                        = Cardinality({i \in 1..Len(blocks) : NonBlank(blocks[i])})

\* The function has returned for a file of two page breaks and a file of an
\* article and a blank block: no row of the first, one row of the second.
C8_Witness ==
    /\ pc = "done"
    /\ folder[nA] = sep \o sep
    /\ Len(BlocksOf(nB)) = 2
    /\ \E i \in 1..Len(BlocksOf(nB)) : ~NonBlank(BlocksOf(nB)[i])
    /\ RowsOf(nA) = {}
    /\ Cardinality(RowsOf(nB)) = 1

====
